---------------------------- MODULE Spec2Model ----------------------------
(***************************************************************************)
(* Calibration confidence decay and recalibration decision engine          *)
(* (src/src/services/pitcherReadiness/calibration-decay.py).               *)
(*                                                                         *)
(* Number representation.  The program computes in binary floating point;  *)
(* the model computes in fixed point:                                      *)
(*   - a confidence, a quality score, a fraction, a vibration index or a   *)
(*     normalised factor f is the integer f * Micro (six decimals);        *)
(*   - temperatures (F), humidities (%) and wind speeds (mph) are whole    *)
(*     numbers;                                                            *)
(*   - a timestamp is a whole number of ticks, TicksPerMinute ticks to the *)
(*     minute; an elapsed time in minutes is a number of ticks;            *)
(*   - a decay rate r (per minute) is the integer r * half_life / ln(2) *  *)
(*     Milli, so that decay_rate = ln(2) / half_life is Milli and          *)
(*     exp(-r * minutes) = 2 ^ (-(rate * ticks) / (Milli * half_life       *)
(*     ticks)).                                                            *)
(***************************************************************************)
EXTENDS Integers, Sequences, FiniteSets, TLC

Milli == 1000
Micro == 1000 * 1000

TicksPerMinute == 10

\* ------------------------------------------------------------------------
\* Python values

\* None, where the program passes or stores it in place of a dict.
None == [none |-> TRUE]

\* None, where the program stores it in place of a datetime.
NoTs == -1

\* The empty dict {}.
EmptyDict == [k \in {} |-> 0]

\* bool(d) of an Optional[Dict]: None and {} are falsy.
Truthy(d) == d # None /\ DOMAIN d # {}

\* d.get(k, default)
Get(d, k, default) == IF k \in DOMAIN d THEN d[k] ELSE default

\* d with d[k] = v set.
Put(d, k, v) == [x \in DOMAIN d \cup {k} |-> IF x = k THEN v ELSE d[x]]

Abs(x) == IF x < 0 THEN -x ELSE x

Min(a, b) == IF a < b THEN a ELSE b

Max(a, b) == IF a > b THEN a ELSE b

\* a * b / Micro for 0 <= a, b <= Micro, without a product above 2^31.
MulFix(a, b) == (a * (b \div Milli)) \div Milli + (a * (b % Milli)) \div Micro

\* round(x, 3) and the :.2f format of a value in Micro units.
Round3(x) == ((x + 500) \div 1000) * 1000

Round2(x) == ((x + 5000) \div 10000) * 10000

\* ------------------------------------------------------------------------
\* CalibrationConfidenceDecay

initial_confidence == 950000

half_life_minutes == 45

min_confidence == 500000

\* np.log(2) / half_life_minutes, in the rate unit ln(2) / half_life / Milli.
decay_rate == Milli

weight_vibration == 2000

weight_wind == 1500

weight_temperature_delta == 1300

weight_humidity_delta == 1200

\* np.log(2)
Ln2 == 693147

RECURSIVE Pow2(_)
Pow2(n) == IF n = 0 THEN 1 ELSE 2 * Pow2(n - 1)

\* The alternating series of exp(-y), 0 <= y <= Micro: term is y^(k-1)/(k-1)!.
RECURSIVE ExpSeries(_, _, _)
ExpSeries(y, term, k) ==
    IF term = 0 \/ k > 14 THEN 0
    ELSE LET next == MulFix(term, y) \div k
         IN  IF k % 2 = 1 THEN ExpSeries(y, next, k + 1) - next
                          ELSE ExpSeries(y, next, k + 1) + next

\* np.exp(-y) for 0 <= y <= Micro.
ExpNeg(y) == Micro + ExpSeries(y, Micro, 1)

\* A decay that halves c every two half-lives.
DecaySlow(c, rate, elapsed) ==
    LET D == 2 * Milli * half_life_minutes * TicksPerMinute
        q == rate * elapsed
        n == q \div D
        r == q % D
        frac == (r * Milli) \div (2 * half_life_minutes * TicksPerMinute)
        m == MulFix(c, ExpNeg(MulFix(frac, Ln2)))
    IN  IF n >= 30 THEN 0
        ELSE IF n >= 0 THEN m \div Pow2(n)
        ELSE m * Pow2(-n)

\* c * np.exp(-rate * minutes_elapsed): with q = rate * ticks and
\* D = Milli * half-life ticks this is c * 2^(-q / D) = c * 2^(-n) * 2^(-r / D),
\* n = floor(q / D), r = q mod D.  A negative elapsed time makes n negative
\* and the value grow; 2^(-n) below one micro-unit is 0.
Decay(c, rate, elapsed) ==
    LET D == Milli * half_life_minutes * TicksPerMinute
        q == rate * elapsed
        n == q \div D
        r == q % D
        frac == (r * Milli) \div (half_life_minutes * TicksPerMinute)
        m == MulFix(c, ExpNeg(MulFix(frac, Ln2)))
    IN  IF n >= 30 THEN 0
        ELSE IF n >= 0 THEN m \div Pow2(n)
        ELSE m * Pow2(-n)

\* A factor without the 1 +: multiplier * (weight - 1) * factor.
ScaleWithoutOne(multiplier, weight, factor) ==
    (multiplier * (((weight - Milli) * factor) \div Micro)) \div Milli

\* One factor of _adjust_decay_rate: multiplier * (1 + (weight - 1) * factor).
Scale(multiplier, weight, factor) ==
    (multiplier * (Milli + ((weight - Milli) * factor) \div Micro)) \div Milli

adjust_decay_rate(base_rate, env_factors) ==
    IF ~Truthy(env_factors) THEN base_rate
    ELSE
    LET m0 == Milli
        m1 == IF "rig_vibration_idx" \in DOMAIN env_factors
                  /\ env_factors["rig_vibration_idx"] > 300000
              THEN Scale(m0, weight_vibration, env_factors["rig_vibration_idx"])
              ELSE m0
        m2 == IF "wind_mph" \in DOMAIN env_factors /\ env_factors["wind_mph"] > 15
              THEN Scale(m1, weight_wind,
                         Min((env_factors["wind_mph"] * Micro) \div 30, Micro))
              ELSE m1
        m3 == IF "temperature_delta_f" \in DOMAIN env_factors
                  /\ Abs(env_factors["temperature_delta_f"]) > 5
              THEN Scale(m2, weight_temperature_delta,
                         Min((Abs(env_factors["temperature_delta_f"]) * Micro) \div 15,
                             Micro))
              ELSE m2
        m4 == IF "humidity_delta_pct" \in DOMAIN env_factors
                  /\ Abs(env_factors["humidity_delta_pct"]) > 10
              THEN Scale(m3, weight_humidity_delta,
                         Min((Abs(env_factors["humidity_delta_pct"]) * Micro) \div 30,
                             Micro))
              ELSE m3
    IN  (base_rate * m4) \div Milli

\* calculate_confidence without the floor of line 74.
calculate_confidence_unfloored(last_ts, current_ts, env_factors) ==
    Decay(initial_confidence, adjust_decay_rate(decay_rate, env_factors),
          current_ts - last_ts)

calculate_confidence(last_ts, current_ts, env_factors) ==
    LET minutes_elapsed == current_ts - last_ts
        effective_decay_rate == adjust_decay_rate(decay_rate, env_factors)
        confidence == Decay(initial_confidence, effective_decay_rate, minutes_elapsed)
    IN  Max(confidence, min_confidence)

\* recommend_recalibration with the low-QA rule tried before the
\* low-confidence rule.
recommend_recalibration_qa_first(confidence, qa_score, late_data_frac) ==
    IF qa_score < 700000 /\ confidence < 800000
    THEN [should |-> TRUE,
          reason |-> <<"Low QA + declining calibration",
                       Round2(qa_score), Round2(confidence)>>]
    ELSE IF confidence < 600000
    THEN [should |-> TRUE,
          reason |-> <<"Low calibration confidence", Round2(confidence)>>]
    ELSE IF late_data_frac > 300000 /\ confidence < 750000
    THEN [should |-> TRUE,
          reason |-> <<"High latency + calibration drift",
                       Round2(late_data_frac), Round2(confidence)>>]
    ELSE [should |-> FALSE, reason |-> <<"Calibration acceptable">>]

\* recommend_recalibration with a low-QA rule that does not look at the
\* confidence.
recommend_recalibration_qa_alone(confidence, qa_score, late_data_frac) ==
    IF confidence < 600000
    THEN [should |-> TRUE,
          reason |-> <<"Low calibration confidence", Round2(confidence)>>]
    ELSE IF qa_score < 700000
    THEN [should |-> TRUE,
          reason |-> <<"Low QA + declining calibration",
                       Round2(qa_score), Round2(confidence)>>]
    ELSE IF late_data_frac > 300000 /\ confidence < 750000
    THEN [should |-> TRUE,
          reason |-> <<"High latency + calibration drift",
                       Round2(late_data_frac), Round2(confidence)>>]
    ELSE [should |-> FALSE, reason |-> <<"Calibration acceptable">>]

recommend_recalibration(confidence, qa_score, late_data_frac) ==
    IF confidence < 600000
    THEN [should |-> TRUE,
          reason |-> <<"Low calibration confidence", Round2(confidence)>>]
    ELSE IF qa_score < 700000 /\ confidence < 800000
    THEN [should |-> TRUE,
          reason |-> <<"Low QA + declining calibration",
                       Round2(qa_score), Round2(confidence)>>]
    ELSE IF late_data_frac > 300000 /\ confidence < 750000
    THEN [should |-> TRUE,
          reason |-> <<"High latency + calibration drift",
                       Round2(late_data_frac), Round2(confidence)>>]
    ELSE [should |-> FALSE, reason |-> <<"Calibration acceptable">>]

\* get_action with a threshold itself in the band below it.
get_action_exclusive(confidence) ==
    IF confidence > 800000 THEN "NONE"
    ELSE IF confidence > 700000 THEN "REBASELINE"
    ELSE IF confidence > 600000 THEN "FALLBACK"
    ELSE "ALERT"

get_action(confidence) ==
    IF confidence >= 800000 THEN "NONE"
    ELSE IF confidence >= 700000 THEN "REBASELINE"
    ELSE IF confidence >= 600000 THEN "FALLBACK"
    ELSE "ALERT"


\* ------------------------------------------------------------------------
\* Inputs and bounds

\* The wall clock (datetime.now()) reads the start of the run or ClockStep
\* ticks after it.
ClockStep == 150

ClockReadings == {0, ClockStep}

\* At most MaxHistory calibration events are recorded in a run.
MaxHistory == 2

Venues == {"busch_iii"}

Sessions == {"game_1"}

\* Confidence arguments of update_calibration: one inside
\* [min_confidence, 1.0] and a weak one below min_confidence.
ConfidenceInputs == {700000, 400000}

\* current_ts arguments: None (NoTs), the first calibration instant, 19.9
\* and 29.8 minutes, the half-life and an extreme one (10,000 minutes).
TsInputs == {NoTs, 0, 199, 298, half_life_minutes * TicksPerMinute,
             10000 * TicksPerMinute}

Calm == [temperature_f |-> 70, humidity_pct |-> 50, wind_mph |-> 5,
         rig_vibration_idx_0_1 |-> 100000]

Storm == [temperature_f |-> 85, humidity_pct |-> 80, wind_mph |-> 30,
          rig_vibration_idx_0_1 |-> 500000, tracking_qa |-> 650000,
          late_data_frac |-> 400000]

WindOnly == [wind_mph |-> 30]

\* env_snapshot arguments.
EnvInputs == {None, EmptyDict, Calm, Storm, WindOnly}

\* The threads of the concurrent specification: two evaluators, which call
\* get_current_confidence() with a snapshot of ConcEnvInputs, and one
\* producer of calibration events, which calls update_calibration(venue,
\* session) with the default confidence.
Evaluators == {"e1", "e2"}

ConcEnvInputs == {Calm, Storm}

\* ------------------------------------------------------------------------
\* CalibrationManager

VARIABLES
    calibration_history,   \* self.calibration_history
    last_calibration_ts,   \* self.last_calibration_ts
    last_env_snapshot,     \* self.last_env_snapshot
    now,                   \* the wall clock read by datetime.now()
    arrivals,              \* the update_calibration calls made, in call order
    last,                  \* the latest get_current_confidence call made
                           \* since the last update_calibration: its
                           \* arguments and the dict it returned
    frame,                 \* per evaluator thread: the position and the
                           \* locals of its get_current_confidence call
    upd,                   \* the position and the arguments of the producer
                           \* thread's update_calibration call
    probe                  \* a direct call of one method of the decay
                           \* model: its arguments and, once it has
                           \* returned, its result

\* The video-analysis API (src/attached_assets/api_1757450393523.py).
VARIABLES
    sessions,              \* the map sessions: session id -> AnalysisSession
    analyzers,             \* the ids of the map analyzers
    proc,                  \* per session: the position of its
                           \* processVideoAsync call and the request
    sockets,               \* the session ids with an open websocket
    seen                   \* the latest response a client received from
                           \* the status, results or websocket endpoint

Api == <<sessions, analyzers, proc, sockets, seen>>

vars == <<calibration_history, last_calibration_ts, last_env_snapshot, now,
          arrivals, last, frame, upd, probe, Api>>

\* The dict appended by update_calibration.
Epoch(venue_id, session_id, timestamp, confidence) ==
    [venue_id |-> venue_id, session_id |-> session_id,
     timestamp |-> timestamp, confidence |-> confidence]

\* An insertion that keeps the history ordered by event timestamp.
AppendEpochByTimestamp(history, epoch) ==
    IF Len(history) > 0 /\ epoch.timestamp < history[Len(history)].timestamp
    THEN <<epoch>> \o history
    ELSE Append(history, epoch)

\* self.calibration_history.append(...)
AppendEpoch(history, epoch) == Append(history, epoch)

\* A default that reports the initial confidence and asks for nothing.
DefaultAssessmentOptimistic ==
    [confidence |-> initial_confidence, action |-> "NONE",
     reason |-> <<"No calibration found">>, should_recalibrate |-> FALSE]

\* The dict returned while no calibration is recorded.
DefaultAssessment ==
    [confidence |-> 500000, action |-> "ALERT",
     reason |-> <<"No calibration found">>, should_recalibrate |-> TRUE]

\* A guard that takes the timestamp of the start of the run for falsy too.
UncalibratedOrZero(ts) == ts = NoTs \/ ts = 0

\* The guard of get_current_confidence: not self.last_calibration_ts.
\* A datetime is always truthy, None is not.
Uncalibrated(ts) == ts = NoTs

\* The environmental deltas and magnitudes of one evaluation.  has_prior is
\* bool(self.last_env_snapshot) as read in line 221, prior_temp and
\* prior_hum are self.last_env_snapshot as read in lines 224 and 228.
EnvFactorsOf(has_prior, prior_temp, prior_hum, env_snapshot) ==
    IF ~Truthy(env_snapshot) THEN EmptyDict
    ELSE
    LET deltas ==
            IF has_prior
            THEN [temperature_delta_f |->
                      Get(env_snapshot, "temperature_f", 70)
                          - Get(prior_temp, "temperature_f", 70),
                  humidity_delta_pct |->
                      Get(env_snapshot, "humidity_pct", 50)
                          - Get(prior_hum, "humidity_pct", 50)]
            ELSE EmptyDict
    IN  Put(Put(deltas, "rig_vibration_idx",
                Get(env_snapshot, "rig_vibration_idx_0_1", 0)),
            "wind_mph", Get(env_snapshot, "wind_mph", 0))

\* Deltas taken on every evaluation, against the defaults when nothing is
\* stored.
EnvFactorsAlwaysDelta(stored, env_snapshot) ==
    EnvFactorsOf(TRUE, stored, stored, env_snapshot)

\* The same when nothing runs between the reads: stored is
\* self.last_env_snapshot.
EnvFactors(stored, env_snapshot) ==
    EnvFactorsOf(Truthy(stored), stored, stored, env_snapshot)

\* A store that takes None and {} as well.
StoreSnapshotAlways(stored, env_snapshot) == env_snapshot

\* self.last_env_snapshot after the evaluation.
StoreSnapshot(stored, env_snapshot) ==
    IF Truthy(env_snapshot) THEN env_snapshot ELSE stored

\* A qa_score that takes missing telemetry for the worst score.
TrackingQaPessimistic(env_snapshot) ==
    IF Truthy(env_snapshot) THEN Get(env_snapshot, "tracking_qa", 0) ELSE 0

\* qa_score as passed to recommend_recalibration (lines 244-246).
TrackingQa(env_snapshot) ==
    IF Truthy(env_snapshot) THEN Get(env_snapshot, "tracking_qa", 900000)
    ELSE 900000

\* late_data_frac as passed to recommend_recalibration (lines 247-249).
LateDataFrac(env_snapshot) ==
    IF Truthy(env_snapshot) THEN Get(env_snapshot, "late_data_frac", 50000)
    ELSE 50000

\* The dict returned by a calibrated manager.  ts_conf is
\* self.last_calibration_ts as passed to calculate_confidence, ts_min as
\* read for minutes_since_calibration.
Assessment(ts_conf, ts_min, current_ts, env_snapshot, env_factors) ==
    LET confidence == calculate_confidence(ts_conf, current_ts, env_factors)
        action == get_action(confidence)
        qa_score == TrackingQa(env_snapshot)
        late_frac == LateDataFrac(env_snapshot)
        rec == recommend_recalibration(confidence, qa_score, late_frac)
    IN  [confidence |-> Round3(confidence),
         action |-> action,
         reason |-> rec.reason,
         should_recalibrate |-> rec.should,
         minutes_since_calibration |-> current_ts - ts_min,
         env_factors |-> env_factors]

\* current_ts or datetime.now()
EffectiveTs(current_ts, clock) == IF current_ts = NoTs THEN clock ELSE current_ts

\* The record of one get_current_confidence call: its arguments, the
\* timestamp it evaluated at, whether every call since the last
\* update_calibration supplied this same env_snapshot, and the dict returned.
Call(current_ts, env_snapshot, at, same_env, ret) ==
    [current_ts |-> current_ts, env_snapshot |-> env_snapshot, at |-> at,
     same_env |-> same_env, ret |-> ret]

\* No get_current_confidence call made yet.
NoCall == [ret |-> None]

\* Whether a call supplying env_snapshot continues a run of calls that all
\* supplied it.
SameEnv(env_snapshot) ==
    last = NoCall \/ (last.same_env /\ last.env_snapshot = env_snapshot)

\* An evaluator thread outside get_current_confidence.
IdleFrame ==
    [pc |-> "idle", env_snapshot |-> None, at |-> NoTs, prior_temp |-> None,
     prior_hum |-> None, overwritten |-> None, ts_conf |-> NoTs,
     ts_min |-> NoTs, ret |-> None]

\* The producer thread outside update_calibration.
IdleUpd == [pc |-> "idle", venue_id |-> "", session_id |-> ""]

\* No direct call of a method of the decay model.
NoProbe == [fn |-> "none"]

\* No response received by a client yet.
NoResponse == [status |-> "none"]

\* The API process after start-up: empty maps, no connection.
ApiInit ==
    /\ sessions = EmptyDict
    /\ analyzers = {}
    /\ proc = EmptyDict
    /\ sockets = {}
    /\ seen = NoResponse

Init ==
    /\ calibration_history = <<>>
    /\ last_calibration_ts = NoTs
    /\ last_env_snapshot = EmptyDict
    /\ now = 0
    /\ arrivals = <<>>
    /\ last = NoCall
    /\ frame = [e \in Evaluators |-> IdleFrame]
    /\ upd = IdleUpd
    /\ probe = NoProbe
    /\ ApiInit

\* An update_calibration that resets the environmental baseline.
update_calibration_resetting(venue_id, session_id, confidence) ==
    /\ Len(arrivals) < MaxHistory
    /\ last_calibration_ts' = now
    /\ calibration_history' =
           AppendEpoch(calibration_history,
                       Epoch(venue_id, session_id, now, confidence))
    /\ arrivals' = Append(arrivals, <<venue_id, session_id, now, confidence>>)
    /\ last' = NoCall
    /\ last_env_snapshot' = EmptyDict
    /\ UNCHANGED <<now, frame, upd, probe, Api>>

update_calibration(venue_id, session_id, confidence) ==
    /\ Len(arrivals) < MaxHistory
    /\ last_calibration_ts' = now
    /\ calibration_history' =
           AppendEpoch(calibration_history,
                       Epoch(venue_id, session_id, now, confidence))
    /\ arrivals' = Append(arrivals, <<venue_id, session_id, now, confidence>>)
    /\ last' = NoCall
    /\ UNCHANGED <<last_env_snapshot, now, frame, upd, probe, Api>>

get_current_confidence(current_ts, env_snapshot) ==
    IF Uncalibrated(last_calibration_ts)
    THEN /\ last' = Call(current_ts, env_snapshot, NoTs, SameEnv(env_snapshot),
                         DefaultAssessment)
         /\ UNCHANGED <<calibration_history, last_calibration_ts,
                        last_env_snapshot, now, arrivals, frame, upd, probe, Api>>
    ELSE LET at == EffectiveTs(current_ts, now)
             env_factors == EnvFactors(last_env_snapshot, env_snapshot)
         IN  /\ last_env_snapshot' = StoreSnapshot(last_env_snapshot, env_snapshot)
             /\ last' = Call(current_ts, env_snapshot, at, SameEnv(env_snapshot),
                             Assessment(last_calibration_ts, last_calibration_ts,
                                        at, env_snapshot, env_factors))
             /\ UNCHANGED <<calibration_history, last_calibration_ts, now,
                            arrivals, frame, upd, probe, Api>>

\* The wall clock advances.
Tick ==
    /\ now + ClockStep \in ClockReadings
    /\ now' = now + ClockStep
    /\ UNCHANGED <<calibration_history, last_calibration_ts, last_env_snapshot,
                   arrivals, last, frame, upd, probe, Api>>

\* The wall clock is set back (datetime.now() is not monotonic).
ClockSetBack ==
    /\ now - ClockStep \in ClockReadings
    /\ now' = now - ClockStep
    /\ UNCHANGED <<calibration_history, last_calibration_ts, last_env_snapshot,
                   arrivals, last, frame, upd, probe, Api>>

Next ==
    \/ \E v \in Venues, s \in Sessions, c \in ConfidenceInputs :
           update_calibration(v, s, c)
    \/ \E t \in TsInputs, e \in EnvInputs : get_current_confidence(t, e)
    \/ Tick
    \/ ClockSetBack

\* One caller: every call runs to its end before the next starts.
Spec == Init /\ [][Next]_vars

\* ------------------------------------------------------------------------
\* Concurrent callers.  The manager takes no lock, so a call running in one
\* thread is interleaved with the calls of the others at each read and each
\* write of a field of the manager.  Each action below is one such access
\* with the thread-local computation around it.

Others == <<calibration_history, last_calibration_ts, last_env_snapshot, now,
            arrivals, last, upd, probe, Api>>

SetFrame(e, f) == frame' = [frame EXCEPT ![e] = f]

\* An evaluator thread enters get_current_confidence(None, env_snapshot).
EvalCall(e, env_snapshot) ==
    /\ frame[e].pc = "idle"
    /\ SetFrame(e, [IdleFrame EXCEPT !.pc = "L208",
                                     !.env_snapshot = env_snapshot])
    /\ UNCHANGED Others

\* Lines 208-220: the guard reads self.last_calibration_ts; current_ts
\* defaults to datetime.now().
EvalL208(e) ==
    /\ frame[e].pc = "L208"
    /\ IF Uncalibrated(last_calibration_ts)
       THEN SetFrame(e, [frame[e] EXCEPT !.pc = "done",
                                         !.ret = DefaultAssessment])
       ELSE SetFrame(e, [frame[e] EXCEPT
                !.pc = IF Truthy(frame[e].env_snapshot) THEN "L221" ELSE "L236",
                !.at = EffectiveTs(NoTs, now)])
    /\ UNCHANGED Others

\* Line 221: if self.last_env_snapshot.
EvalL221(e) ==
    /\ frame[e].pc = "L221"
    /\ SetFrame(e, [frame[e] EXCEPT
            !.pc = IF Truthy(last_env_snapshot) THEN "L224" ELSE "L232"])
    /\ UNCHANGED Others

\* Lines 222-225: self.last_env_snapshot is read for the temperature delta.
EvalL224(e) ==
    /\ frame[e].pc = "L224"
    /\ SetFrame(e, [frame[e] EXCEPT !.pc = "L228",
                                    !.prior_temp = last_env_snapshot])
    /\ UNCHANGED Others

\* Lines 226-229: self.last_env_snapshot is read for the humidity delta.
EvalL228(e) ==
    /\ frame[e].pc = "L228"
    /\ SetFrame(e, [frame[e] EXCEPT !.pc = "L232",
                                    !.prior_hum = last_env_snapshot])
    /\ UNCHANGED Others

\* Lines 230-232: self.last_env_snapshot = env_snapshot.  overwritten is the
\* snapshot this write replaces.
EvalL232(e) ==
    /\ frame[e].pc = "L232"
    /\ last_env_snapshot' = frame[e].env_snapshot
    /\ SetFrame(e, [frame[e] EXCEPT !.pc = "L236",
                                    !.overwritten = last_env_snapshot])
    /\ UNCHANGED <<calibration_history, last_calibration_ts, now, arrivals,
                   last, upd, probe, Api>>

\* Lines 235-249: self.last_calibration_ts is read for calculate_confidence.
EvalL236(e) ==
    /\ frame[e].pc = "L236"
    /\ SetFrame(e, [frame[e] EXCEPT !.pc = "L257",
                                    !.ts_conf = last_calibration_ts])
    /\ UNCHANGED Others

\* Lines 251-261: self.last_calibration_ts is read for
\* minutes_since_calibration and the dict is returned.
EvalL257(e) ==
    /\ frame[e].pc = "L257"
    /\ LET f == frame[e]
           env_factors == EnvFactorsOf(f.prior_temp # None, f.prior_temp,
                                       f.prior_hum, f.env_snapshot)
       IN  SetFrame(e, [f EXCEPT
               !.pc = "done",
               !.ts_min = last_calibration_ts,
               !.ret = Assessment(f.ts_conf, last_calibration_ts, f.at,
                                  f.env_snapshot, env_factors)])
    /\ UNCHANGED Others

\* The caller takes the returned dict.
EvalReturn(e) ==
    /\ frame[e].pc = "done"
    /\ SetFrame(e, IdleFrame)
    /\ UNCHANGED Others

\* The producer thread enters update_calibration(venue_id, session_id).
UpdCall(venue_id, session_id) ==
    /\ upd.pc = "idle"
    /\ Len(arrivals) < MaxHistory
    /\ upd' = [pc |-> "L193", venue_id |-> venue_id, session_id |-> session_id]
    /\ arrivals' = Append(arrivals,
                          <<venue_id, session_id, now, initial_confidence>>)
    /\ UNCHANGED <<calibration_history, last_calibration_ts, last_env_snapshot,
                   now, last, frame, probe, Api>>

\* Line 193: self.last_calibration_ts = datetime.now()
UpdL193 ==
    /\ upd.pc = "L193"
    /\ last_calibration_ts' = now
    /\ upd' = [upd EXCEPT !.pc = "L194"]
    /\ UNCHANGED <<calibration_history, last_env_snapshot, now, arrivals, last,
                   frame, probe, Api>>

\* Lines 194-200: the epoch, with self.last_calibration_ts read again, is
\* appended to the history.
UpdL194 ==
    /\ upd.pc = "L194"
    /\ calibration_history' =
           AppendEpoch(calibration_history,
                       Epoch(upd.venue_id, upd.session_id, last_calibration_ts,
                             initial_confidence))
    /\ upd' = IdleUpd
    /\ UNCHANGED <<last_calibration_ts, last_env_snapshot, now, arrivals, last,
                   frame, probe, Api>>

\* The wall clock advances while the threads run.
ConcTick ==
    /\ now + ClockStep \in ClockReadings
    /\ now' = now + ClockStep
    /\ UNCHANGED <<calibration_history, last_calibration_ts, last_env_snapshot,
                   arrivals, last, frame, upd, probe, Api>>

NextConc ==
    \/ \E e \in Evaluators, env \in ConcEnvInputs : EvalCall(e, env)
    \/ \E e \in Evaluators : EvalL208(e)
    \/ \E e \in Evaluators : EvalL221(e)
    \/ \E e \in Evaluators : EvalL224(e)
    \/ \E e \in Evaluators : EvalL228(e)
    \/ \E e \in Evaluators : EvalL232(e)
    \/ \E e \in Evaluators : EvalL236(e)
    \/ \E e \in Evaluators : EvalL257(e)
    \/ \E e \in Evaluators : EvalReturn(e)
    \/ \E v \in Venues, s \in Sessions : UpdCall(v, s)
    \/ UpdL193
    \/ UpdL194
    \/ ConcTick

\* Two evaluator threads and one producer thread on one manager.
SpecConc == Init /\ [][NextConc]_vars

\* ------------------------------------------------------------------------
\* Direct calls of the methods of CalibrationConfidenceDecay.  probe holds
\* the arguments of one call; the call adds the field out, its result.

\* confidence arguments: -0.10 to 1.20 in steps of 0.05, the values next
\* to the thresholds 0.60, 0.70, 0.75 and 0.80, and 0.78.
ConfidenceGrid ==
    {k * 50000 : k \in -2 .. 24}
        \cup {599999, 600001, 699999, 700001, 749999, 750001, 799999, 800001}
        \cup {780000}

\* qa_score arguments.
QaGrid == {k * 100000 : k \in 0 .. 10} \cup {650000, 699999, 700001}

\* late_data_frac arguments.
LateGrid == {k * 100000 : k \in 0 .. 10} \cup {50000, 299999, 300001}

\* Values of the four keys of env_factors.
EnvFactorKeys ==
    {"rig_vibration_idx", "wind_mph", "temperature_delta_f",
     "humidity_delta_pct"}

VibrationValues == {-100000, 0, 300000, 300001, 500000, Micro, 2 * Micro}

WindValues == {-20, 0, 15, 16, 30, 60}

TemperatureDeltaValues == {-30, -15, -6, -5, 0, 5, 6, 15, 30}

HumidityDeltaValues == {-60, -30, -11, -10, 0, 10, 11, 30, 60}

\* The dict with the given keys and the given values for them.
EnvFactorsDict(keys, vibration, wind, temperature_delta, humidity_delta) ==
    LET all == [rig_vibration_idx |-> vibration, wind_mph |-> wind,
                temperature_delta_f |-> temperature_delta,
                humidity_delta_pct |-> humidity_delta]
    IN  [k \in keys |-> all[k]]

\* env_factors arguments of _adjust_decay_rate: None and every dict over
\* any subset of the four keys with the values above.
EnvFactorsInputs ==
    {None} \cup {EnvFactorsDict(keys, v, w, t, h) :
                    keys \in SUBSET EnvFactorKeys,
                    v \in VibrationValues, w \in WindValues,
                    t \in TemperatureDeltaValues, h \in HumidityDeltaValues}

\* env_factors arguments of calculate_confidence: none, each factor alone
\* just above its threshold, a vibration index of 0.5, all four at their
\* extremes, all four at their thresholds.
CalcEnvFactorsInputs ==
    {None, EmptyDict,
     [rig_vibration_idx |-> 300001],
     [rig_vibration_idx |-> 500000],
     [wind_mph |-> 16],
     [temperature_delta_f |-> -6],
     [humidity_delta_pct |-> 11],
     EnvFactorsDict(EnvFactorKeys, 2 * Micro, 60, 30, -60),
     EnvFactorsDict(EnvFactorKeys, 300000, 15, 5, -10)}

\* Elapsed times of calculate_confidence: every tick from 0 to MaxElapsed
\* (past the half-life) and 10,000 minutes.
MaxElapsed == 460

ElapsedGrid == 0 .. MaxElapsed \cup {10000 * TicksPerMinute}

ProbeInputs ==
    {[fn |-> "get_action", confidence |-> c] : c \in ConfidenceGrid}
    \cup {[fn |-> "recommend_recalibration", confidence |-> c, qa_score |-> q,
           late_data_frac |-> l] :
              c \in ConfidenceGrid, q \in QaGrid, l \in LateGrid}
    \cup {[fn |-> "_adjust_decay_rate", base_rate |-> decay_rate,
           env_factors |-> e] : e \in EnvFactorsInputs}
    \cup {[fn |-> "calculate_confidence", last_ts |-> 0, current_ts |-> t,
           env_factors |-> e] : t \in ElapsedGrid, e \in CalcEnvFactorsInputs}

\* probe with the result of the call.
Result(out) == [k \in DOMAIN probe \cup {"out"} |->
                   IF k = "out" THEN out ELSE probe[k]]

\* A call of fn is to be made.
Pending(fn) == probe.fn = fn /\ "out" \notin DOMAIN probe

\* A call of fn has returned.
Applied(fn) == probe.fn = fn /\ "out" \in DOMAIN probe

Manager == <<calibration_history, last_calibration_ts, last_env_snapshot, now,
             arrivals, last, frame, upd>>

InitFn ==
    /\ calibration_history = <<>>
    /\ last_calibration_ts = NoTs
    /\ last_env_snapshot = EmptyDict
    /\ now = 0
    /\ arrivals = <<>>
    /\ last = NoCall
    /\ frame = [e \in Evaluators |-> IdleFrame]
    /\ upd = IdleUpd
    /\ probe \in ProbeInputs
    /\ ApiInit

CallGetAction ==
    /\ Pending("get_action")
    /\ probe' = Result(get_action(probe.confidence))
    /\ UNCHANGED <<Manager, Api>>

CallRecommendRecalibration ==
    /\ Pending("recommend_recalibration")
    /\ probe' = Result(recommend_recalibration(probe.confidence, probe.qa_score,
                                               probe.late_data_frac))
    /\ UNCHANGED <<Manager, Api>>

CallAdjustDecayRate ==
    /\ Pending("_adjust_decay_rate")
    /\ probe' = Result(adjust_decay_rate(probe.base_rate, probe.env_factors))
    /\ UNCHANGED <<Manager, Api>>

CallCalculateConfidence ==
    /\ Pending("calculate_confidence")
    /\ probe' = Result(calculate_confidence(probe.last_ts, probe.current_ts,
                                            probe.env_factors))
    /\ UNCHANGED <<Manager, Api>>

NextFn ==
    \/ CallGetAction
    \/ CallRecommendRecalibration
    \/ CallAdjustDecayRate
    \/ CallCalculateConfidence

\* One direct call of one method, for every argument of ProbeInputs.
SpecFn == InitFn /\ [][NextFn]_vars

\* ------------------------------------------------------------------------
\* The video-analysis API.  The process runs one event loop: a handler or a
\* continuation of processVideoAsync runs from one await to the next without
\* interleaving, so each action below is the code between two awaits.

\* Session ids generateSessionId() can return.
SessionIds == {"blaze_1", "blaze_2"}

\* Requests that pass VideoAnalysisRequest.parse: the video source given
\* and analysisOptions.generateReport.
RequestInputs ==
    [source : {"videoUrl", "videoFile", "none"}, generateReport : BOOLEAN]

\* What analyzer.analyzeVideo can resolve to: results with two frames,
\* results without frames, results whose first frame is null, and nothing.
TwoFrames == [frames |-> <<[timestamp |-> 0], [timestamp |-> 40]>>]

NoFrames == [frames |-> <<>>]

NullFrame == [frames |-> <<None, [timestamp |-> 40]>>]

ResultsInputs == {TwoFrames, NoFrames, NullFrame, None}

\* The outcome of an awaited call: it resolves or it rejects.
Outcomes == {"resolved", "rejected"}

\* calculateDuration(results): the duration, or a TypeError.
calculateDuration(results) ==
    IF results = None THEN [throws |-> TRUE]
    ELSE IF Len(results.frames) = 0 THEN [throws |-> FALSE, value |-> 0]
    ELSE LET firstFrame == results.frames[1]
             lastFrame == results.frames[Len(results.frames)]
         IN  IF firstFrame = None \/ lastFrame = None
             THEN [throws |-> TRUE]
             ELSE [throws |-> FALSE,
                   value |-> lastFrame.timestamp - firstFrame.timestamp]

\* The AnalysisSession created by the initialize endpoint.
NewSession(id) ==
    [id |-> id, duration |-> 0, results |-> None, status |-> "processing"]

\* session.status = 'failed' in the catch block.
Failed(session) == [session EXCEPT !.status = "failed"]

SetSession(id, session) == sessions' = [sessions EXCEPT ![id] = session]

SetProc(id, pc) == proc' = [proc EXCEPT ![id].pc = pc]

\* POST /api/v1/analysis/initialize, with processVideoAsync up to its
\* first await: a request without video source fails at once.
Initialize(id, request) ==
    /\ id \notin DOMAIN sessions
    /\ analyzers' = analyzers \cup {id}
    /\ IF request.source = "none"
       THEN /\ sessions' = Put(sessions, id, Failed(NewSession(id)))
            /\ proc' = Put(proc, id, [pc |-> "done", request |-> request])
       ELSE /\ sessions' = Put(sessions, id, NewSession(id))
            /\ proc' = Put(proc, id, [pc |-> "fetch", request |-> request])
    /\ UNCHANGED <<Manager, probe, sockets, seen>>

\* Lines 376-386: the video buffer is fetched or read; analyzeVideo is
\* called.
FetchDone(id, outcome) ==
    /\ id \in DOMAIN proc /\ proc[id].pc = "fetch"
    /\ IF outcome = "rejected"
       THEN SetSession(id, Failed(sessions[id])) /\ SetProc(id, "done")
       ELSE SetProc(id, "analyze") /\ UNCHANGED sessions
    /\ UNCHANGED <<Manager, probe, analyzers, sockets, seen>>

\* Line 388 rejects: the catch block.
AnalyzeRejected(id) ==
    /\ id \in DOMAIN proc /\ proc[id].pc = "analyze"
    /\ SetSession(id, Failed(sessions[id]))
    /\ SetProc(id, "done")
    /\ UNCHANGED <<Manager, probe, analyzers, sockets, seen>>

\* Lines 388-400: analyzeVideo resolves to results; the session is updated
\* up to the next await, or up to the catch block if calculateDuration
\* throws.
AnalyzeDone(id, results) ==
    /\ id \in DOMAIN proc /\ proc[id].pc = "analyze"
    /\ LET completed == [sessions[id] EXCEPT !.results = results,
                                             !.status = "completed"]
           duration == calculateDuration(results)
       IN  IF duration.throws
           THEN SetSession(id, Failed(completed)) /\ SetProc(id, "done")
           ELSE /\ SetSession(id, [completed EXCEPT !.duration = duration.value])
                /\ SetProc(id, IF proc[id].request.generateReport
                               THEN "report" ELSE "webhook")
    /\ UNCHANGED <<Manager, probe, analyzers, sockets, seen>>

\* A generateAutomaticReport that can reject.
ReportDoneOrRejected(id) ==
    /\ id \in DOMAIN proc /\ proc[id].pc = "report"
    /\ \E outcome \in Outcomes :
           IF outcome = "rejected"
           THEN SetSession(id, Failed(sessions[id])) /\ SetProc(id, "done")
           ELSE SetProc(id, "webhook") /\ UNCHANGED sessions
    /\ UNCHANGED <<Manager, probe, analyzers, sockets, seen>>

\* Line 397: generateAutomaticReport (an empty async function) resolves.
ReportDone(id) ==
    /\ id \in DOMAIN proc /\ proc[id].pc = "report"
    /\ SetProc(id, "webhook")
    /\ UNCHANGED <<Manager, probe, sessions, analyzers, sockets, seen>>

\* Line 400: notifyWebhook (an empty async function) resolves;
\* processVideoAsync ends.
WebhookDone(id) ==
    /\ id \in DOMAIN proc /\ proc[id].pc = "webhook"
    /\ SetProc(id, "done")
    /\ UNCHANGED <<Manager, probe, sessions, analyzers, sockets, seen>>

\* The response of an endpoint as the client sees it.
Response(via, id, status, results) ==
    [via |-> via, sessionId |-> id, status |-> status, results |-> results]

\* GET /api/v1/analysis/status/:sessionId
GetStatus(id) ==
    /\ id \in DOMAIN sessions
    /\ seen' = Response("status", id, sessions[id].status, None)
    /\ UNCHANGED <<Manager, probe, sessions, analyzers, proc, sockets>>

\* GET /api/v1/analysis/results/:sessionId: 'processing', HTTP 500 for
\* 'failed', else 'completed' with the results.
GetResults(id) ==
    /\ id \in DOMAIN sessions
    /\ seen' = IF sessions[id].status = "processing"
               THEN Response("results", id, "processing", None)
               ELSE IF sessions[id].status = "failed"
               THEN Response("results", id, "failed", None)
               ELSE Response("results", id, "completed", sessions[id].results)
    /\ UNCHANGED <<Manager, probe, sessions, analyzers, proc, sockets>>

\* The websocket endpoint accepts a connection for a known session.
WsConnect(id) ==
    /\ id \in DOMAIN sessions
    /\ id \notin sockets
    /\ sockets' = sockets \cup {id}
    /\ UNCHANGED <<Manager, probe, sessions, analyzers, proc, seen>>

\* The 500 ms interval of an open websocket: the final status is sent and
\* the socket closed, or 'processing' is sent.
WsTick(id) ==
    /\ id \in sockets
    /\ IF sessions[id].status \in {"completed", "failed"}
       THEN /\ seen' = Response("websocket", id, sessions[id].status,
                                IF sessions[id].status = "completed"
                                THEN sessions[id].results ELSE None)
            /\ sockets' = sockets \ {id}
       ELSE /\ seen' = Response("websocket", id, "processing", None)
            /\ UNCHANGED sockets
    /\ UNCHANGED <<Manager, probe, sessions, analyzers, proc>>

NextApi ==
    \/ \E id \in SessionIds, request \in RequestInputs : Initialize(id, request)
    \/ \E id \in SessionIds, outcome \in Outcomes : FetchDone(id, outcome)
    \/ \E id \in SessionIds : AnalyzeRejected(id)
    \/ \E id \in SessionIds, results \in ResultsInputs : AnalyzeDone(id, results)
    \/ \E id \in SessionIds : ReportDone(id)
    \/ \E id \in SessionIds : WebhookDone(id)
    \/ \E id \in SessionIds : GetStatus(id)
    \/ \E id \in SessionIds : GetResults(id)
    \/ \E id \in SessionIds : WsConnect(id)
    \/ \E id \in SessionIds : WsTick(id)

\* The API process serving clients while its sessions are processed.
SpecApi == Init /\ [][NextApi]_vars

\* ------------------------------------------------------------------------
\* Properties of the sequential specification Spec

\* Some get_current_confidence call has returned since the last
\* update_calibration (or since construction).
Returned == last # NoCall

\* update_calibration has been called at least once.
Calibrated == arrivals # <<>>

\* The timestamp of the most recent update_calibration call.
LatestEpochTs == arrivals[Len(arrivals)][3]

\* C1: on a manager on which update_calibration was never called,
\* get_current_confidence returns, for every current_ts and env_snapshot,
\* confidence = min_confidence, action ALERT, should_recalibrate true and
\* reason 'No calibration found'.
C1_UninitializedDefault ==
    (Returned /\ ~Calibrated) =>
        /\ last.ret.confidence = min_confidence
        /\ last.ret.action = "ALERT"
        /\ last.ret.should_recalibrate = TRUE
        /\ last.ret.reason = <<"No calibration found">>

C1_Witness ==
    /\ Returned /\ ~Calibrated
    /\ last.env_snapshot = Storm
    /\ last.current_ts = 10000 * TicksPerMinute
    /\ last.ret.confidence = min_confidence

\* C2: after any sequence of update_calibration and get_current_confidence
\* calls, for any elapsed time and any snapshot, the confidence returned is
\* never below min_confidence.
C2_ConfidenceAtLeastFloor ==
    Returned => last.ret.confidence >= min_confidence

C2_Witness ==
    /\ Returned /\ Calibrated
    /\ last.at - last_calibration_ts >= 9000 * TicksPerMinute
    /\ last.env_snapshot = Storm
    /\ last.ret.confidence = min_confidence

\* C3: between two calibration epochs, when every evaluation supplies the
\* same env_snapshot, successive get_current_confidence calls with
\* non-decreasing current_ts return non-increasing confidence.
C3_MonotoneWithinEpoch ==
    [][(/\ Returned /\ Calibrated
        /\ arrivals' = arrivals
        /\ last' # NoCall
        /\ last' # last
        /\ last'.same_env
        /\ last'.at >= last.at)
       => last'.ret.confidence <= last.ret.confidence]_vars

\* C4: two get_current_confidence calls in immediate succession with the
\* same current_ts and env_snapshot, with no write between them, return
\* identical assessments.
C4_RepeatedCallIdentical ==
    [][(/\ Returned
        /\ arrivals' = arrivals
        /\ last' # NoCall
        /\ last'.current_ts = last.current_ts
        /\ last'.at = last.at
        /\ last'.env_snapshot = last.env_snapshot)
       => last'.ret = last.ret]_vars

\* C7: calibration_history is the sequence of update_calibration calls in
\* arrival order: every call, whatever its confidence, appended one epoch at
\* the end, and no entry was removed, reordered or changed.
C7_HistoryIsArrivalLog ==
    /\ Len(calibration_history) = Len(arrivals)
    /\ \A i \in 1..Len(arrivals) :
           calibration_history[i] =
               Epoch(arrivals[i][1], arrivals[i][2], arrivals[i][3], arrivals[i][4])

C7_Witness ==
    /\ Len(calibration_history) = 2
    /\ calibration_history[1].timestamp > calibration_history[2].timestamp
    /\ calibration_history[1].confidence < min_confidence
    /\ calibration_history[2].confidence >= min_confidence

\* C8: after update_calibration(venue, session, confidence = c) with c in
\* [min_confidence, 1.0], an evaluation at the instant of that calibration,
\* without environmental stress, returns confidence c.
C8_DecayStartsAtEpochConfidence ==
    (/\ Returned /\ Calibrated
     /\ last.at = LatestEpochTs
     /\ ~Truthy(last.env_snapshot)
     /\ arrivals[Len(arrivals)][4] >= min_confidence
     /\ arrivals[Len(arrivals)][4] <= Micro)
    => last.ret.confidence = arrivals[Len(arrivals)][4]

\* C9: when current_ts is earlier than the active epoch's timestamp,
\* get_current_confidence returns the confidence of zero elapsed time, which
\* does not exceed the initial confidence and lies in [min_confidence, 1.0].
C9_NegativeElapsedClamped ==
    (Returned /\ Calibrated /\ last.at < LatestEpochTs) =>
        /\ last.ret.confidence =
               Round3(calculate_confidence(LatestEpochTs, LatestEpochTs,
                                           last.ret.env_factors))
        /\ last.ret.confidence <= initial_confidence
        /\ last.ret.confidence >= min_confidence
        /\ last.ret.confidence <= Micro

\* C10: once update_calibration has been called, no get_current_confidence
\* returns the 'No calibration found' default; the elapsed minutes and the
\* decay are measured from the most recent epoch, and every earlier epoch
\* is still in the history.
C10_StaysCalibrated ==
    (Returned /\ Calibrated) =>
        /\ last.ret.reason # <<"No calibration found">>
        /\ "minutes_since_calibration" \in DOMAIN last.ret
        /\ last.ret.minutes_since_calibration = last.at - LatestEpochTs
        /\ last.ret.confidence =
               Round3(calculate_confidence(LatestEpochTs, last.at,
                                           last.ret.env_factors))
        /\ \A i \in 1..Len(arrivals) :
               /\ i <= Len(calibration_history)
               /\ calibration_history[i].timestamp = arrivals[i][3]

C10_Witness ==
    /\ Returned
    /\ Len(arrivals) = 2
    /\ arrivals[1][3] # arrivals[2][3]
    /\ last.ret.minutes_since_calibration = last.at - arrivals[2][3]
    /\ last.ret.minutes_since_calibration # last.at - arrivals[1][3]
    /\ Len(calibration_history) = 2

\* C11: in every assessment returned by get_current_confidence, action is
\* the band of the assessment's own confidence value (NONE at >= 0.80,
\* REBASELINE at >= 0.70, FALLBACK at >= 0.60, ALERT below), so that two
\* assessments with equal confidence carry the same action.
C11_ActionIsBandOfConfidence ==
    Returned => last.ret.action = get_action(last.ret.confidence)

\* C12: two evaluations that report equal confidence and use equal qa score
\* and late-data fraction report equal should_recalibrate, whatever the
\* history, the epoch or the stored snapshot.
C12_RecommendationFromReportedInputs ==
    [][(/\ Returned
        /\ last' # NoCall
        /\ last'.ret.confidence = last.ret.confidence
        /\ TrackingQa(last'.env_snapshot) = TrackingQa(last.env_snapshot)
        /\ LateDataFrac(last'.env_snapshot) = LateDataFrac(last.env_snapshot))
       => last'.ret.should_recalibrate = last.ret.should_recalibrate]_vars

\* C16: when the evaluation is given no env_snapshot, or one without
\* tracking_qa and late_data_frac, the policy uses qa = 0.9 and late
\* fraction = 0.05, and should_recalibrate is true exactly when the
\* confidence passed to the policy (the decayed confidence of the current
\* epoch, before it is rounded for the assessment) is below 0.60.
C16_MissingTelemetryNeverTriggers ==
    (/\ Returned /\ Calibrated
     /\ \/ ~Truthy(last.env_snapshot)
        \/ /\ "tracking_qa" \notin DOMAIN last.env_snapshot
           /\ "late_data_frac" \notin DOMAIN last.env_snapshot)
    => /\ TrackingQa(last.env_snapshot) = 900000
       /\ LateDataFrac(last.env_snapshot) = 50000
       /\ last.ret.should_recalibrate
              <=> calculate_confidence(LatestEpochTs, last.at,
                                       last.ret.env_factors) < 600000

C16_Witness ==
    /\ Returned /\ Calibrated
    /\ last.env_snapshot = Calm
    /\ last.ret.confidence >= 600000
    /\ last.ret.confidence < 750000
    /\ ~last.ret.should_recalibrate

\* The dict d without the key k.
Without(d, k) == [x \in DOMAIN d \ {k} |-> d[x]]

\* C18: a factor whose key is absent from the supplied env_snapshot
\* contributes nothing to the decay-rate multiplier, whatever the stored
\* snapshot contains: a snapshot without temperature_f (humidity_pct)
\* yields no temperature-delta (humidity-delta) contribution.
C18_AbsentKeyContributesNothing ==
    (Returned /\ Calibrated /\ Truthy(last.env_snapshot)) =>
        /\ "temperature_f" \notin DOMAIN last.env_snapshot =>
               adjust_decay_rate(decay_rate, last.ret.env_factors)
                   = adjust_decay_rate(decay_rate,
                         Without(last.ret.env_factors, "temperature_delta_f"))
        /\ "humidity_pct" \notin DOMAIN last.env_snapshot =>
               adjust_decay_rate(decay_rate, last.ret.env_factors)
                   = adjust_decay_rate(decay_rate,
                         Without(last.ret.env_factors, "humidity_delta_pct"))

\* C20: with the default configuration (initial 0.95, half-life 45, min
\* 0.5) and no environmental factors, an evaluation 45 minutes after the
\* calibration reports confidence 0.5 (the undamped 0.475 clamped to the
\* floor) and action ALERT.
C20_HalfLifeBoundary ==
    (/\ Returned /\ Calibrated
     /\ ~Truthy(last.env_snapshot)
     /\ last.at - LatestEpochTs = 45 * TicksPerMinute)
    => /\ initial_confidence = 950000
       /\ half_life_minutes = 45
       /\ min_confidence = 500000
       /\ Decay(initial_confidence, decay_rate, last.at - LatestEpochTs)
              = 475000
       /\ last.ret.confidence = 500000
       /\ last.ret.action = "ALERT"

C20_Witness ==
    /\ Returned /\ Calibrated
    /\ last.env_snapshot = None
    /\ last.at - LatestEpochTs = 45 * TicksPerMinute
    /\ last.ret.env_factors = EmptyDict
    /\ last.ret.confidence = 500000
    /\ last.ret.action = "ALERT"

\* C23: on the first evaluation of a calibrated manager that supplies an
\* env_snapshot (stored snapshot still empty), the temperature-delta and
\* humidity-delta factors are skipped, so only vibration and wind can raise
\* the decay rate; from the second such evaluation on the deltas are taken
\* against the previously supplied snapshot.
C23_FirstSnapshotSkipsDeltas ==
    [][(/\ Calibrated
        /\ last' # NoCall
        /\ last' # last
        /\ now' = now
        /\ Truthy(last'.env_snapshot))
       => LET env == last'.env_snapshot
              f == last'.ret.env_factors
              against(prior) ==
                  /\ DOMAIN f = {"rig_vibration_idx", "wind_mph",
                                 "temperature_delta_f", "humidity_delta_pct"}
                  /\ f["temperature_delta_f"]
                         = Get(env, "temperature_f", 70)
                               - Get(prior, "temperature_f", 70)
                  /\ f["humidity_delta_pct"]
                         = Get(env, "humidity_pct", 50)
                               - Get(prior, "humidity_pct", 50)
          IN  /\ last_env_snapshot = EmptyDict =>
                     /\ DOMAIN f = {"rig_vibration_idx", "wind_mph"}
                     /\ f["rig_vibration_idx"]
                            = Get(env, "rig_vibration_idx_0_1", 0)
                     /\ f["wind_mph"] = Get(env, "wind_mph", 0)
              /\ last_env_snapshot # EmptyDict => against(last_env_snapshot)
              /\ (last # NoCall /\ Truthy(last.env_snapshot)) =>
                     against(last.env_snapshot)]_vars

C23_Witness ==
    /\ Returned /\ Calibrated
    /\ last.env_snapshot = Storm
    /\ last.at > LatestEpochTs
    /\ last.ret.env_factors
           = [rig_vibration_idx |-> 500000, wind_mph |-> 30]
    /\ last_env_snapshot = Storm

\* C24: in every assessment returned by get_current_confidence (calibrated
\* or not, any telemetry), action = ALERT implies should_recalibrate = true
\* and action = NONE implies should_recalibrate = false.
C24_ActionAgreesWithRecommendation ==
    Returned =>
        /\ last.ret.action = "ALERT" => last.ret.should_recalibrate = TRUE
        /\ last.ret.action = "NONE" => last.ret.should_recalibrate = FALSE

C24_Witness ==
    /\ Returned /\ Calibrated
    /\ last.env_snapshot = Storm
    /\ TrackingQa(last.env_snapshot) < 700000
    /\ LateDataFrac(last.env_snapshot) > 300000
    /\ last.ret.action = "NONE"
    /\ last.ret.should_recalibrate = FALSE

\* C25: get_current_confidence never changes calibration_history or
\* last_calibration_ts; it changes last_env_snapshot only when the manager
\* is calibrated and a non-empty env_snapshot is supplied, and then the
\* stored snapshot becomes exactly the supplied one.  An evaluation without
\* snapshot, or on an uninitialized manager, leaves the whole manager state
\* unchanged.
C25_EvaluationFrame ==
    [][(last' # NoCall /\ last' # last /\ now' = now)
       => /\ calibration_history' = calibration_history
          /\ last_calibration_ts' = last_calibration_ts
          /\ IF Calibrated /\ last'.env_snapshot # None
                 /\ last'.env_snapshot # EmptyDict
             THEN last_env_snapshot' = last'.env_snapshot
             ELSE last_env_snapshot' = last_env_snapshot]_vars

C25_Witness ==
    /\ Returned /\ Calibrated
    /\ last.env_snapshot = EmptyDict
    /\ last_env_snapshot = Storm
    /\ Len(calibration_history) = 1

\* C26: update_calibration leaves last_env_snapshot unchanged, so the
\* temperature and humidity deltas of the first evaluation after a
\* recalibration are taken against the snapshot stored before that
\* recalibration.
C26_RecalibrationKeepsBaseline ==
    [][/\ arrivals' # arrivals => last_env_snapshot' = last_env_snapshot
       /\ (/\ Calibrated
           /\ last = NoCall
           /\ last' # NoCall
           /\ Truthy(last'.env_snapshot)
           /\ Truthy(last_env_snapshot))
          => /\ last'.ret.env_factors["temperature_delta_f"]
                    = Get(last'.env_snapshot, "temperature_f", 70)
                          - Get(last_env_snapshot, "temperature_f", 70)
             /\ last'.ret.env_factors["humidity_delta_pct"]
                    = Get(last'.env_snapshot, "humidity_pct", 50)
                          - Get(last_env_snapshot, "humidity_pct", 50)]_vars

C26_Witness ==
    /\ Returned
    /\ Len(arrivals) = 2
    /\ last.env_snapshot = Calm
    /\ last.same_env
    /\ "temperature_delta_f" \in DOMAIN last.ret.env_factors
    /\ last.ret.env_factors["temperature_delta_f"] = -15
    /\ last.ret.env_factors["humidity_delta_pct"] = -30

\* ------------------------------------------------------------------------
\* Properties of the direct calls SpecFn

\* C13: recommend_recalibration evaluates its rules in order and the first
\* true rule decides recommendation and reason: (1) confidence < 0.60 gives
\* true with the low-confidence reason; else (2) qa_score < 0.70 and
\* confidence < 0.80 gives true with the low-QA reason; else (3)
\* late_data_frac > 0.30 and confidence < 0.75 gives true with the latency
\* reason; else false with 'Calibration acceptable'.  Confidence 0.78, qa
\* 0.65, late 0.05 gives true by rule 2.
C13_FirstTrueRuleDecides ==
    Applied("recommend_recalibration") =>
        LET c == probe.confidence
            q == probe.qa_score
            l == probe.late_data_frac
            rule1 == c < 600000
            rule2 == q < 700000 /\ c < 800000
            rule3 == l > 300000 /\ c < 750000
            reason == probe.out.reason
        IN  /\ rule1 =>
                /\ probe.out.should
                /\ reason = <<"Low calibration confidence", Round2(c)>>
            /\ (~rule1 /\ rule2) =>
                /\ probe.out.should
                /\ reason = <<"Low QA + declining calibration",
                              Round2(q), Round2(c)>>
            /\ (~rule1 /\ ~rule2 /\ rule3) =>
                /\ probe.out.should
                /\ reason = <<"High latency + calibration drift",
                              Round2(l), Round2(c)>>
            /\ (~rule1 /\ ~rule2 /\ ~rule3) =>
                /\ ~probe.out.should
                /\ reason = <<"Calibration acceptable">>
            /\ (c = 780000 /\ q = 650000 /\ l = 50000) =>
                /\ probe.out.should
                /\ reason[1] = "Low QA + declining calibration"

C13_Witness ==
    /\ Applied("recommend_recalibration")
    /\ probe.confidence = 780000
    /\ probe.qa_score = 650000
    /\ probe.late_data_frac = 50000
    /\ probe.out.should
    /\ probe.out.reason[1] = "Low QA + declining calibration"

\* C14: get_action is total and threshold-based: NONE when confidence >=
\* 0.80, REBASELINE when 0.70 <= confidence < 0.80, FALLBACK when 0.60 <=
\* confidence < 0.70 and ALERT when confidence < 0.60, so every confidence
\* maps to exactly one of the four actions.
C14_ActionBands ==
    Applied("get_action") =>
        LET c == probe.confidence
        IN  /\ probe.out \in {"NONE", "REBASELINE", "FALLBACK", "ALERT"}
            /\ probe.out = "NONE" <=> c >= 800000
            /\ probe.out = "REBASELINE" <=> (700000 <= c /\ c < 800000)
            /\ probe.out = "FALLBACK" <=> (600000 <= c /\ c < 700000)
            /\ probe.out = "ALERT" <=> c < 600000

C14_Witness ==
    /\ Applied("get_action")
    /\ probe.confidence = 600000
    /\ probe.out = "FALLBACK"

\* C15: no single quality signal alone justifies recalibration: for every
\* confidence >= 0.80 recommend_recalibration returns false whatever
\* qa_score and late_data_frac are, a low qa_score triggers only together
\* with confidence < 0.80 and a high late_data_frac only together with
\* confidence < 0.75.  Confidence 0.85, qa 0.65, late 0.05 gives false.
C15_SignalsNeedCorroboration ==
    Applied("recommend_recalibration") =>
        LET c == probe.confidence
            q == probe.qa_score
            l == probe.late_data_frac
        IN  /\ c >= 800000 => ~probe.out.should
            /\ (probe.out.should /\ c >= 600000) =>
                   \/ q < 700000 /\ c < 800000
                   \/ l > 300000 /\ c < 750000
            /\ (probe.out.should /\ c >= 600000 /\ l <= 300000) =>
                   q < 700000 /\ c < 800000
            /\ (probe.out.should /\ c >= 600000 /\ q >= 700000) =>
                   l > 300000 /\ c < 750000
            /\ (c = 850000 /\ q = 650000 /\ l = 50000) => ~probe.out.should

C15_Witness ==
    /\ Applied("recommend_recalibration")
    /\ probe.confidence = 850000
    /\ probe.qa_score = 650000
    /\ probe.late_data_frac = 50000
    /\ ~probe.out.should

\* At least one factor of env_factors is above its trigger threshold.
Stressed(env_factors) ==
    /\ Truthy(env_factors)
    /\ \/ Get(env_factors, "rig_vibration_idx", 0) > 300000
       \/ Get(env_factors, "wind_mph", 0) > 15
       \/ Abs(Get(env_factors, "temperature_delta_f", 0)) > 5
       \/ Abs(Get(env_factors, "humidity_delta_pct", 0)) > 10

\* C17: for every env_factors (any subset of the four keys, any values)
\* _adjust_decay_rate returns a rate >= base_rate, and a strictly greater
\* rate when at least one factor is above its trigger threshold, so that at
\* the same positive elapsed time where the unstressed confidence is above
\* the floor the stressed confidence is strictly lower.
C17_StressNeverSlowsDecay ==
    /\ Applied("_adjust_decay_rate") =>
           /\ probe.out >= probe.base_rate
           /\ Stressed(probe.env_factors) => probe.out > probe.base_rate
    /\ (/\ Applied("calculate_confidence")
        /\ Stressed(probe.env_factors)
        /\ probe.current_ts > probe.last_ts
        /\ calculate_confidence(probe.last_ts, probe.current_ts, EmptyDict)
               > min_confidence)
       => probe.out < calculate_confidence(probe.last_ts, probe.current_ts,
                                           EmptyDict)

C17_Witness ==
    /\ Applied("calculate_confidence")
    /\ probe.env_factors = [rig_vibration_idx |-> 500000]
    /\ probe.current_ts = probe.last_ts + 1
    /\ probe.out > min_confidence
    /\ probe.out < calculate_confidence(probe.last_ts, probe.current_ts,
                                        EmptyDict)

\* A calculate_confidence call without environmental factors and with a
\* non-negative elapsed time has returned.
AppliedUnstressed ==
    /\ Applied("calculate_confidence")
    /\ ~Truthy(probe.env_factors)
    /\ probe.current_ts >= probe.last_ts

\* C19 as stated: with no environmental factors, calculate_confidence is
\* strictly decreasing in the elapsed minutes for all elapsed >= 0 and
\* equals initial_confidence / 2 at elapsed = half_life_minutes.
C19_StrictlyDecreasingAndHalved ==
    AppliedUnstressed =>
        /\ \A t \in ElapsedGrid :
               t > probe.current_ts - probe.last_ts =>
                   calculate_confidence(probe.last_ts, probe.last_ts + t,
                                        probe.env_factors) < probe.out
        /\ probe.current_ts - probe.last_ts
               = half_life_minutes * TicksPerMinute =>
                   probe.out = initial_confidence \div 2

\* C19 as amended: with no environmental factors, calculate_confidence is
\* non-increasing in the elapsed minutes for all elapsed >= 0, strictly
\* decreasing from every elapsed time at which it is above min_confidence,
\* and equals max(initial_confidence / 2, min_confidence) at elapsed =
\* half_life_minutes.
C19_DecreasingDownToFloor ==
    AppliedUnstressed =>
        /\ \A t \in ElapsedGrid :
               t > probe.current_ts - probe.last_ts =>
                   LET later == calculate_confidence(probe.last_ts,
                                    probe.last_ts + t, probe.env_factors)
                   IN  /\ later <= probe.out
                       /\ probe.out > min_confidence => later < probe.out
        /\ probe.current_ts - probe.last_ts
               = half_life_minutes * TicksPerMinute =>
                   probe.out = Max(initial_confidence \div 2, min_confidence)

C19_Witness ==
    /\ AppliedUnstressed
    /\ probe.current_ts - probe.last_ts = half_life_minutes * TicksPerMinute
    /\ probe.out = min_confidence
    /\ probe.out > initial_confidence \div 2
    /\ calculate_confidence(probe.last_ts, probe.current_ts + 1,
                            probe.env_factors) = probe.out

\* C21: each factor's contribution to the multiplier saturates at its
\* weight for arbitrarily large magnitudes (vibration at most x2.0, wind at
\* most x1.5, temperature delta at most x1.3, humidity delta at most
\* x1.2), so the adjusted rate never exceeds base_rate * 2.0 * 1.5 * 1.3 *
\* 1.2 for any input.
C21_ContributionsSaturate ==
    Applied("_adjust_decay_rate") =>
        LET e == probe.env_factors
            only(k) == e # None /\ DOMAIN e = {k}
            times(rate, weight) == (rate * weight) \div Milli
            base == probe.base_rate
        IN  /\ only("rig_vibration_idx") =>
                   probe.out <= times(base, weight_vibration)
            /\ only("wind_mph") => probe.out <= times(base, weight_wind)
            /\ only("temperature_delta_f") =>
                   probe.out <= times(base, weight_temperature_delta)
            /\ only("humidity_delta_pct") =>
                   probe.out <= times(base, weight_humidity_delta)
            /\ probe.out <=
                   times(times(times(times(base, weight_vibration),
                                     weight_wind),
                               weight_temperature_delta),
                         weight_humidity_delta)

\* The rate for one factor of magnitude x scaled linearly over the span
\* from its threshold lo (multiplier 1.0) to hi (multiplier weight).
LinearOverSpan(base_rate, weight, x, lo, hi) ==
    (base_rate * Scale(Milli, weight,
                       Min(((x - lo) * Micro) \div (hi - lo), Micro)))
        \div Milli

\* C22: for each factor above its trigger threshold the contribution is
\* scaled linearly by how far past the threshold the value is, over the
\* normalization span (wind 15 to 30 mph, |temperature delta| 5 to 15 F,
\* |humidity delta| 10 to 30 %): a value just above its threshold
\* contributes a multiplier just above 1.0 and the full weight is reached
\* only at the upper end of the span.
C22_LinearPastThreshold ==
    Applied("_adjust_decay_rate") =>
        LET e == probe.env_factors
            only(k) == e # None /\ DOMAIN e = {k}
            base == probe.base_rate
        IN  /\ (only("wind_mph") /\ e["wind_mph"] > 15) =>
                   probe.out = LinearOverSpan(base, weight_wind,
                                              e["wind_mph"], 15, 30)
            /\ (only("temperature_delta_f")
                    /\ Abs(e["temperature_delta_f"]) > 5) =>
                   probe.out = LinearOverSpan(base, weight_temperature_delta,
                                   Abs(e["temperature_delta_f"]), 5, 15)
            /\ (only("humidity_delta_pct")
                    /\ Abs(e["humidity_delta_pct"]) > 10) =>
                   probe.out = LinearOverSpan(base, weight_humidity_delta,
                                   Abs(e["humidity_delta_pct"]), 10, 30)

\* ------------------------------------------------------------------------
\* Properties of the video-analysis API SpecApi

\* C27: a session's status only moves from 'processing' to 'completed' or
\* from 'processing' to 'failed' and is final afterwards: once a client can
\* observe status 'completed' (with non-null results) through the status,
\* results or websocket endpoints, no later step of processVideoAsync
\* changes that session to 'failed'.
C27_CompletedIsFinal ==
    [][/\ \A id \in DOMAIN sessions :
              /\ sessions'[id].status # sessions[id].status =>
                     /\ sessions[id].status = "processing"
                     /\ sessions'[id].status \in {"completed", "failed"}
              /\ sessions[id].status = "completed" =>
                     /\ sessions[id].results # None
                     /\ sessions'[id].status = "completed"
                     /\ sessions'[id].results = sessions[id].results
       /\ seen'.status = "completed" =>
              /\ sessions'[seen'.sessionId].status = "completed"
              /\ seen'.via \in {"results", "websocket"} =>
                     /\ seen'.results # None
                     /\ seen'.results = sessions'[seen'.sessionId].results]_vars

C27_Witness ==
    /\ DOMAIN sessions = SessionIds
    /\ sessions["blaze_1"].status = "completed"
    /\ proc["blaze_1"].request.generateReport
    /\ proc["blaze_1"].pc = "done"
    /\ seen = Response("websocket", "blaze_1", "completed", TwoFrames)
    /\ sessions["blaze_2"].status = "failed"
    /\ sessions["blaze_2"].results = NullFrame

\* ------------------------------------------------------------------------
\* Properties of the concurrent specification SpecConc

\* C5: when update_calibration runs concurrently with
\* get_current_confidence, confidence, action and
\* minutes_since_calibration of the returned assessment are computed from
\* one and the same last_calibration_ts.
C5_AssessmentFromOneEpoch ==
    \A e \in Evaluators :
        (frame[e].pc = "done" /\ frame[e].ts_conf # NoTs) =>
            /\ frame[e].ts_min = frame[e].ts_conf
            /\ frame[e].ret.minutes_since_calibration
                   = frame[e].at - frame[e].ts_conf

\* C6: when two get_current_confidence calls with different snapshots run
\* concurrently, each takes its temperature delta and its humidity delta
\* against the same prior snapshot, and no other evaluator's write falls
\* between that read and the call's own write of last_env_snapshot.
C6_SnapshotReadReplaceAtomic ==
    \A e \in Evaluators :
        (frame[e].pc = "done" /\ frame[e].prior_temp # None) =>
            /\ frame[e].prior_hum = frame[e].prior_temp
            /\ frame[e].overwritten = frame[e].prior_temp

=============================================================================
